---------------------------- MODULE Spec2Model ----------------------------
(***************************************************************************)
(* A model of como/rnaseq.py: the gene row filter (k_over_a, genefilter),  *)
(* the per-study filtering techniques (cpm_filter, tpm_quantile_filter,    *)
(* zfpkm_filter), the parallel zFPKM transform and the batch aggregation   *)
(* of save_rnaseq_tests.                                                   *)
(*                                                                         *)
(* Numbers.  A float cell is a record [nan, v]: nan says the cell is NaN,  *)
(* v is its value.  Counts and gene ids are plain integers.  Ratios are    *)
(* pairs <<numerator, denominator>> that binary floating point holds       *)
(* exactly (0, 1/4, 1/2, 3/4, 1).                                          *)
(***************************************************************************)
EXTENDS Integers, Sequences, FiniteSets, TLC

VARIABLES
    gf_pc,        \* GeneRowFilter: "call", "returned" or "raised"
    gf_data,      \* the container handed to genefilter: [kind, rows]
    gf_k,         \* k of k_over_a
    gf_a,         \* a of k_over_a
    gf_row,       \* the row last handed to the predicate (0: none yet)
    gf_pred,      \* the predicate's value on that row
    gf_out,       \* what genefilter returned: a sequence of booleans
    ag_pc,        \* AggregationReporter: "filtered" or "written"
    ag_universe,  \* entrez_gene_ids of the read result: the gene universe
    ag_metrics,   \* per study: entrez_gene_ids and high_confidence_entrez_gene_ids
    ag_options,   \* batch_ratio and high_batch_ratio
    boolean_matrix, \* the table written: rows [label, entrez_gene_id, expressed, high]
    zt_pc,        \* zfpkm_transform: "call", "pool", "returned" or "raised"
    zt_fpkm_df,   \* the matrix handed to zfpkm_transform: [index, columns, data]
    zt_kde,       \* per column name: the peaks find_peaks reports for its density
    zt_cpu,       \* multiprocessing.cpu_count()
    zt_tasks,     \* per chunk of columns: "queued", "running" or "finished"
    zt_outqueue,  \* per column position: the result its worker produced, if finished
    zt_finished,  \* the chunks in the order their workers finished them
    zt_i,         \* how many results the imap iterator has yielded
    results,      \* zfpkm_transform's result map: sample name -> _ZFPKMResult
    zfpkm_df,     \* zfpkm_transform's z-matrix
    fp_pc,        \* "save_rnaseq_tests", "call" (of filter_counts), a
                  \* technique's loop, "returned" or "raised"
    fp_prep,      \* the preparation method: "total" or "scrna"
    fp_technique, \* "cpm", "tpm", "zfpkm" or "umi"
    fp_options,   \* replicate_ratio, high_replicate_ratio and cut_off
    fp_metrics,   \* the studies' metrics, in the dictionary's order
    fp_input,     \* the metrics as they were handed to filter_counts
    fp_kde,       \* per study and column: the peaks find_peaks reports
    fp_cpu,       \* multiprocessing.cpu_count()
    fp_pos,       \* the position of the loop's study
    zc_pc,        \* _zfpkm_calculation: "call", "returned" or "raised"
    zc_col,       \* the column handed to _zfpkm_calculation
    zc_peaks,     \* what find_peaks reports for the column's density
    zc_result     \* the _ZFPKMResult returned

gf_vars == <<gf_pc, gf_data, gf_k, gf_a, gf_row, gf_pred, gf_out>>
ag_vars == <<ag_pc, ag_universe, ag_metrics, ag_options, boolean_matrix>>

zt_vars == <<zt_pc, zt_fpkm_df, zt_kde, zt_cpu, zt_tasks, zt_outqueue,
             zt_finished, zt_i, results, zfpkm_df>>

fp_vars == <<fp_pc, fp_prep, fp_technique, fp_options, fp_metrics, fp_input, fp_kde,
             fp_cpu, fp_pos>>

zc_vars == <<zc_pc, zc_col, zc_peaks, zc_result>>

vars == <<gf_vars, ag_vars, zt_vars, fp_vars, zc_vars>>

(***************************************************************************)
(* Floats                                                                  *)
(***************************************************************************)
Num(x) == [nan |-> FALSE, v |-> x]
NaN == [nan |-> TRUE, v |-> 0]

\* x >= a on floats: a comparison with NaN is false.
Ge(x, a) == ~x.nan /\ x.v >= a

\* x > a on floats.
Gt(x, a) == ~x.nan /\ x.v > a

(***************************************************************************)
(* GeneRowFilter                                                           *)
(***************************************************************************)
RECURSIVE np_sum(_)
\* np.sum of a boolean array: the number of its true entries.
np_sum(bools) ==
    IF bools = <<>> THEN 0
    ELSE (IF Head(bools) THEN 1 ELSE 0) + np_sum(Tail(bools))

\* A mutant of filter_func: the comparison is strict.
filter_func_strict(k, a, row) ==
    np_sum([i \in DOMAIN row |-> Gt(row[i], a)]) >= k

\* The predicate k_over_a(k, a) returns, applied to a row.
filter_func(k, a, row) ==
    np_sum([i \in DOMAIN row |-> Ge(row[i], a)]) >= k

\* genefilter's match on type(data): the case patterns are value patterns,
\* compared with ==.  type(data) == pd.DataFrame holds for a DataFrame;
\* type(data) == npt.NDArray compares the class numpy.ndarray with the
\* generic alias ndarray[Any, dtype[...]] and is false for every object, so
\* an array falls through to the default case.
genefilter_case(kind) ==
    IF kind = "DataFrame" THEN "DataFrame" ELSE "default"

\* genefilter(data, k_over_a(k, a)): the boolean vector, or the ValueError.
genefilter(data, k, a) ==
    IF genefilter_case(data.kind) = "DataFrame"
    THEN [raised |-> FALSE,
          value |-> [i \in DOMAIN data.rows |-> filter_func(k, a, data.rows[i])]]
    ELSE [raised |-> TRUE, value |-> <<>>]

(***************************************************************************)
(* The GeneRowFilter specification: a container, k and a are drawn, the    *)
(* predicate is applied to single rows and genefilter to the container.    *)
(***************************************************************************)
MaxCols == 2
RowCounts == {1, 2}

FloatCells == {Num(1), Num(2), NaN}
ContainerKinds == {"DataFrame", "ndarray", "list"}

RowsOfWidth(w) == [1..w -> FloatCells]
Matrices == UNION {[1..r -> RowsOfWidth(w)] : r \in RowCounts, w \in 1..MaxCols}

\* The other components are not running.
GfIdle ==
    /\ gf_pc = "idle"
    /\ gf_data = [kind |-> "DataFrame", rows |-> <<>>]
    /\ gf_k = 0
    /\ gf_a = 0
    /\ gf_row = 0
    /\ gf_pred = FALSE
    /\ gf_out = <<>>

AgIdle ==
    /\ ag_pc = "idle"
    /\ ag_universe = <<>>
    /\ ag_metrics = <<>>
    /\ ag_options = [batch_ratio |-> <<0, 1>>, high_batch_ratio |-> <<0, 1>>]
    /\ boolean_matrix = <<>>

EmptyFrame == [index |-> <<>>, columns |-> <<>>, data |-> <<>>]

ZtIdle ==
    /\ zt_pc = "idle"
    /\ zt_fpkm_df = EmptyFrame
    /\ zt_kde = <<>>
    /\ zt_cpu = 0
    /\ zt_tasks = <<>>
    /\ zt_outqueue = <<>>
    /\ zt_finished = <<>>
    /\ zt_i = 0
    /\ results = <<>>
    /\ zfpkm_df = EmptyFrame

FpIdle ==
    /\ fp_pc = "idle"
    /\ fp_prep = "total"
    /\ fp_technique = "cpm"
    /\ fp_options = [replicate_ratio |-> <<0, 1>>, high_replicate_ratio |-> <<0, 1>>,
                     cut_off |-> 0]
    /\ fp_metrics = <<>>
    /\ fp_input = <<>>
    /\ fp_kde = <<>>
    /\ fp_cpu = 0
    /\ fp_pos = 0

ZcIdle ==
    /\ zc_pc = "idle"
    /\ zc_col = <<>>
    /\ zc_peaks = {}
    /\ zc_result = <<>>

GfInit ==
    /\ AgIdle
    /\ ZtIdle
    /\ FpIdle
    /\ ZcIdle
    /\ gf_pc = "call"
    /\ gf_data \in [kind : ContainerKinds, rows : Matrices]
    /\ gf_k \in -1..(MaxCols + 1)
    /\ gf_a \in {1, 2}
    /\ gf_row = 0
    /\ gf_pred = FALSE
    /\ gf_out = <<>>

\* filter_func(row) for one row of the container.
CallFilterFunc ==
    /\ gf_pc = "call"
    /\ \E i \in DOMAIN gf_data.rows :
          /\ gf_row' = i
          /\ gf_pred' = filter_func(gf_k, gf_a, gf_data.rows[i])
    /\ UNCHANGED <<gf_pc, gf_data, gf_k, gf_a, gf_out, ag_vars, zt_vars, fp_vars, zc_vars>>

\* genefilter(data, filter_func)
CallGenefilter ==
    /\ gf_pc = "call"
    /\ LET r == genefilter(gf_data, gf_k, gf_a)
       IN /\ gf_pc' = IF r.raised THEN "raised" ELSE "returned"
          /\ gf_out' = r.value
    /\ UNCHANGED <<gf_data, gf_k, gf_a, gf_row, gf_pred, ag_vars, zt_vars, fp_vars, zc_vars>>

GfNext == CallFilterFunc \/ CallGenefilter

SpecRowFilter == GfInit /\ [][GfNext]_vars

(***************************************************************************)
(* C3: the predicate returned by k_over_a(k, a) is true on a row exactly   *)
(* when at least k of the row's values are >= a; so k <= 0 accepts every   *)
(* row and k greater than the row length rejects every row.                *)
(***************************************************************************)
CountGe(row, a) == Cardinality({i \in DOMAIN row : Ge(row[i], a)})

C3_KOverA ==
    gf_row # 0 =>
        LET row == gf_data.rows[gf_row]
        IN /\ gf_pred = (CountGe(row, gf_a) >= gf_k)
           /\ (gf_k <= 0 => gf_pred)
           /\ (gf_k > Len(row) => ~gf_pred)

\* A row with a value equal to a that is needed to reach k.
C3_Witness ==
    /\ gf_row # 0
    /\ gf_pred
    /\ gf_k = 2
    /\ \E i \in DOMAIN gf_data.rows[gf_row] : gf_data.rows[gf_row][i] = Num(gf_a)

(***************************************************************************)
(* C10: genefilter returns, for a DataFrame and for a NumPy array, the     *)
(* vector of the predicate's values row by row, and raises for any other   *)
(* type.                                                                   *)
(***************************************************************************)
C10_Genefilter ==
    gf_pc # "call" =>
        IF gf_data.kind \in {"DataFrame", "ndarray"}
        THEN /\ gf_pc = "returned"
             /\ Len(gf_out) = Len(gf_data.rows)
             /\ \A i \in DOMAIN gf_data.rows :
                   gf_out[i] = (CountGe(gf_data.rows[i], gf_a) >= gf_k)
        ELSE gf_pc = "raised" /\ gf_out = <<>>

(***************************************************************************)
(* AggregationReporter: save_rnaseq_tests after filter_counts has returned *)
(***************************************************************************)
RECURSIVE extend(_, _, _)
\* expressed_genes / top_genes: the studies' lists, one after the other.
\* field is "entrez_gene_ids" or "high_confidence_entrez_gene_ids".
extend(metrics, field, n) ==
    IF n = 0 THEN <<>>
    ELSE extend(metrics, field, n - 1) \o metrics[n][field]

RECURSIVE unique(_)
\* The distinct values of a list, in the order of their first occurrence.
unique(list) ==
    IF list = <<>> THEN <<>>
    ELSE LET rest == unique(SubSeq(list, 1, Len(list) - 1))
             last == list[Len(list)]
         IN IF \E i \in DOMAIN rest : rest[i] = last THEN rest
            ELSE Append(rest, last)

\* How often g occurs in list.
occurrences(list, g) == Cardinality({i \in DOMAIN list : list[i] = g})

RECURSIVE by_frequency(_, _, _)
\* The distinct values whose frequency is c, then c - 1, ... , 1.
by_frequency(list, values, c) ==
    IF c = 0 THEN <<>>
    ELSE SelectSeq(values, LAMBDA g : occurrences(list, g) = c)
         \o by_frequency(list, values, c - 1)

\* pd.Series(list).value_counts() put in a DataFrame: one row per distinct
\* value, most frequent first, labelled 0, 1, 2, ... by the default
\* RangeIndex.
frequency_df(list) ==
    LET sorted == by_frequency(list, unique(list), Len(list))
    IN [i \in DOMAIN sorted |->
           [label |-> i - 1,
            entrez_gene_id |-> sorted[i],
            frequency |-> occurrences(list, sorted[i])]]

\* A mutant of prop_at_least: the comparison is strict.
prop_above(frequency, n_studies, ratio) ==
    frequency * ratio[2] > ratio[1] * n_studies

\* df["prop"] >= ratio, where prop = frequency / len(metrics).
prop_at_least(frequency, n_studies, ratio) ==
    frequency * ratio[2] >= ratio[1] * n_studies

\* df[df["prop"] >= ratio]: the rows kept keep their labels.
frequent_df(list, n_studies, ratio) ==
    SelectSeq(frequency_df(list),
              LAMBDA r : prop_at_least(r.frequency, n_studies, ratio))

\* gene in df["entrez_gene_id"]: Python's in on a Series tests the index
\* labels, not the values.
in_series(gene, df) == \E i \in DOMAIN df : df[i].label = gene

\* boolean_matrix.loc[label, column] = 1: sets the cell of the row with that
\* label; a label the table does not have adds a row, its other cells NaN.
loc_set(table, label, column) ==
    IF \E i \in DOMAIN table : table[i].label = label
    THEN [i \in DOMAIN table |->
             IF table[i].label = label
             THEN [table[i] EXCEPT ![column] = Num(1)]
             ELSE table[i]]
    ELSE Append(table,
                [[label |-> label, entrez_gene_id |-> NaN,
                  expressed |-> NaN, high |-> NaN] EXCEPT ![column] = Num(1)])

RECURSIVE mark(_, _, _, _)
\* The marking loop over the first n genes of the universe.
mark(table, universe, n, dfs) ==
    IF n = 0 THEN table
    ELSE LET before == mark(table, universe, n - 1, dfs)
             gene == universe[n]
             e == IF in_series(gene, dfs.expression_df)
                  THEN loc_set(before, gene, "expressed") ELSE before
         IN IF in_series(gene, dfs.top_df) THEN loc_set(e, gene, "high") ELSE e

\* The table save_rnaseq_tests writes.
aggregate(metrics, universe, options) ==
    LET n_studies == Len(metrics)
        expressed_genes == extend(metrics, "entrez_gene_ids", n_studies)
        top_genes == extend(metrics, "high_confidence_entrez_gene_ids", n_studies)
        dfs == [expression_df |->
                    frequent_df(expressed_genes, n_studies, options.batch_ratio),
                top_df |->
                    frequent_df(top_genes, n_studies, options.high_batch_ratio)]
        empty == [i \in DOMAIN universe |->
                     [label |-> i - 1, entrez_gene_id |-> Num(universe[i]),
                      expressed |-> Num(0), high |-> Num(0)]]
    IN mark(empty, universe, Len(universe), dfs)

(***************************************************************************)
(* The aggregation specification: the studies' gene lists as a filtering   *)
(* technique leaves them (entrez_gene_ids a sub-list of the universe,      *)
(* high-confidence ids a prefix of it), the universe and the two batch     *)
(* ratios are drawn; the table is computed and written.                    *)
(***************************************************************************)
NumGenes == 3
StudyCounts == {1, 2, 3}
BatchRatios == {<<1, 2>>, <<4, 5>>}

\* Gene ids that are row positions, the same reversed, and ids far from any
\* row position.
Universes ==
    { [i \in 1..NumGenes |-> i],
      [i \in 1..NumGenes |-> NumGenes + 1 - i],
      [i \in 1..NumGenes |-> 100 + i] }

RECURSIVE SubLists(_)
\* The sub-lists of a list: some elements dropped, the order kept.
SubLists(list) ==
    IF list = <<>> THEN {<<>>}
    ELSE LET rest == SubLists(Tail(list))
         IN rest \cup {<<Head(list)>> \o r : r \in rest}

Prefixes(list) == {SubSeq(list, 1, n) : n \in 0..Len(list)}

StudyLists(universe) ==
    UNION { { [entrez_gene_ids |-> e, high_confidence_entrez_gene_ids |-> h]
              : h \in Prefixes(e) }
            : e \in SubLists(universe) }

AgInit ==
    /\ GfIdle
    /\ ZtIdle
    /\ FpIdle
    /\ ZcIdle
    /\ ag_pc = "filtered"
    /\ ag_universe \in Universes
    /\ \E n \in StudyCounts : ag_metrics \in [1..n -> StudyLists(ag_universe)]
    /\ ag_options \in [batch_ratio : BatchRatios, high_batch_ratio : BatchRatios]
    /\ boolean_matrix = <<>>

\* save_rnaseq_tests, from the tally to boolean_matrix.to_csv.
WriteBooleanMatrix ==
    /\ ag_pc = "filtered"
    /\ ag_pc' = "written"
    /\ boolean_matrix' = aggregate(ag_metrics, ag_universe, ag_options)
    /\ UNCHANGED <<ag_universe, ag_metrics, ag_options, gf_vars, zt_vars, fp_vars, zc_vars>>

AgNext == WriteBooleanMatrix

SpecAggregate == AgInit /\ [][AgNext]_vars

\* The number of studies whose list holds gene g.
StudiesWith(g, field) ==
    Cardinality({s \in DOMAIN ag_metrics :
                    \E i \in DOMAIN ag_metrics[s][field] :
                        ag_metrics[s][field][i] = g})

Flag(b) == IF b THEN Num(1) ELSE Num(0)

(***************************************************************************)
(* C4: in the table written, gene g is marked expressed exactly when the   *)
(* share of studies whose entrez_gene_ids hold g is at least batch_ratio,  *)
(* and high exactly when the share of studies whose high-confidence ids    *)
(* hold g is at least high_batch_ratio.                                    *)
(***************************************************************************)
C4_BatchAggregation ==
    ag_pc = "written" =>
        \A i \in DOMAIN ag_universe :
            \E j \in DOMAIN boolean_matrix :
                /\ boolean_matrix[j].entrez_gene_id = Num(ag_universe[i])
                /\ boolean_matrix[j].expressed =
                       Flag(prop_at_least(
                                StudiesWith(ag_universe[i], "entrez_gene_ids"),
                                Len(ag_metrics), ag_options.batch_ratio))
                /\ boolean_matrix[j].high =
                       Flag(prop_at_least(
                                StudiesWith(ag_universe[i],
                                            "high_confidence_entrez_gene_ids"),
                                Len(ag_metrics), ag_options.high_batch_ratio))

(***************************************************************************)
(* C5: the table written has exactly one row per gene of the universe, in  *)
(* universe order, and a gene no study selected is marked 0 / 0.           *)
(***************************************************************************)
C5_OneRowPerGene ==
    ag_pc = "written" =>
        /\ Len(boolean_matrix) = Len(ag_universe)
        /\ \A i \in DOMAIN ag_universe :
              /\ boolean_matrix[i].entrez_gene_id = Num(ag_universe[i])
              /\ (/\ StudiesWith(ag_universe[i], "entrez_gene_ids") = 0
                  /\ StudiesWith(ag_universe[i],
                                 "high_confidence_entrez_gene_ids") = 0)
                 => /\ boolean_matrix[i].expressed = Num(0)
                    /\ boolean_matrix[i].high = Num(0)

(***************************************************************************)
(* ZFPKMTransform                                                          *)
(*                                                                         *)
(* A zFPKM value is held in hundredths (ZScale), a position on the         *)
(* log2 axis as an integer: log2 is taken to its integer part and x_range  *)
(* is the integer positions from the column's minimum to its maximum.  The *)
(* kernel density estimate and scipy's find_peaks are library code: what   *)
(* they report for a column is the set zt_kde holds for it, a set of       *)
(* peaks [x, y] at positions strictly inside x_range (find_peaks never     *)
(* reports the first or the last sample of a signal).                      *)
(***************************************************************************)
ZScale == 100
SqrtHalfPi == 12533      \* np.sqrt(np.pi / 2), in ten-thousandths

RECURSIVE log2_floor(_)
\* The integer part of log2(x), x >= 1.
log2_floor(x) == IF x < 2 THEN 0 ELSE 1 + log2_floor(x \div 2)

\* col_log2 = np.log2(col + 1)
np_log2(col) == [i \in DOMAIN col |-> log2_floor(col[i] + 1)]

SeqMin(seq) == CHOOSE m \in {seq[i] : i \in DOMAIN seq} :
                   \A i \in DOMAIN seq : m <= seq[i]
SeqMax(seq) == CHOOSE m \in {seq[i] : i \in DOMAIN seq} :
                   \A i \in DOMAIN seq : m >= seq[i]

RECURSIVE seq_sum(_)
seq_sum(seq) == IF seq = <<>> THEN 0 ELSE Head(seq) + seq_sum(Tail(seq))

\* A mutant of zfpkm_name: the series is built without name=col.name.
zfpkm_name_lost(name) == "None"

\* The name of the series _zfpkm_calculation returns.
zfpkm_name(name) == name

\* A mutant of argmax_peak_positions: the tallest peak, the one further
\* right of two equally tall.
argmax_density(peaks) ==
    CHOOSE p \in peaks :
        \A q \in peaks : q.y < p.y \/ (q.y = p.y /\ q.x <= p.x)

\* peaks[np.argmax(peak_positions)]: the peak at the largest x-position.
argmax_peak_positions(peaks) ==
    CHOOSE p \in peaks : \A q \in peaks : q.x <= p.x

\* _zfpkm_calculation(col, kernel, peak_parameters) for the column `col`
\* named `name`, `peaks` being what find_peaks reports for its density.
\* The series returned has the default index 0, 1, 2, ...: value i of
\* zfpkm is labelled i - 1.
zfpkm_calculation(col, name, peaks) ==
    LET col_log2 == np_log2(col)
    IN IF peaks = {}
       THEN [name |-> zfpkm_name(name),
             zfpkm |-> [i \in DOMAIN col |-> Num(ZScale * col_log2[i])],
             mu |-> 0, std_dev |-> Num(ZScale), max_fpkm |-> 0]
       ELSE LET top == argmax_peak_positions(peaks)
                mu == top.x
                above == SelectSeq(col_log2, LAMBDA v : v > mu)
                n == Len(above)
                \* (u - mu) * n, u the mean of the values above mu
                spread == seq_sum(above) - n * mu
            IN IF n = 0
               THEN \* the mean of no values is NaN, and so is all that follows
                    [name |-> zfpkm_name(name),
                     zfpkm |-> [i \in DOMAIN col |-> NaN],
                     mu |-> mu, std_dev |-> NaN, max_fpkm |-> top.y]
               ELSE [name |-> zfpkm_name(name),
                     zfpkm |-> [i \in DOMAIN col |->
                                  Num(((col_log2[i] - mu) * n * ZScale * 10000)
                                      \div (spread * SqrtHalfPi))],
                     mu |-> mu,
                     std_dev |-> Num((spread * SqrtHalfPi * ZScale)
                                     \div (n * 10000)),
                     max_fpkm |-> top.y]

\* The position of a column name among a frame's columns (0: not there).
column_position(df, name) ==
    IF \E j \in DOMAIN df.columns : df.columns[j] = name
    THEN CHOOSE j \in DOMAIN df.columns : df.columns[j] = name
    ELSE 0

\* df[name]: the column's values, top to bottom.
column(df, name) ==
    [i \in DOMAIN df.data |-> df.data[i][column_position(df, name)]]

\* series.reindex(index): the value the series holds for each label of the
\* index, NaN for a label it does not have.  The series' own labels are
\* 0 .. Len(values) - 1.
reindex(values, index) ==
    [i \in DOMAIN index |->
        IF index[i] >= 0 /\ index[i] < Len(values)
        THEN values[index[i] + 1] ELSE NaN]

\* df[key] = series: the series is aligned on df's index; a key df does
\* not have becomes a new last column.
set_column(df, key, values) ==
    LET aligned == reindex(values, df.index)
        j == column_position(df, key)
    IN IF j # 0
       THEN [df EXCEPT !.data =
                [i \in DOMAIN df.data |-> [df.data[i] EXCEPT ![j] = aligned[i]]]]
       ELSE [df EXCEPT !.columns = Append(df.columns, key),
                       !.data = [i \in DOMAIN df.data |->
                                    Append(df.data[i], aligned[i])]]

\* pd.DataFrame(data=0, index=fpkm_df.index, columns=fpkm_df.columns)
zeros_like(df) ==
    [df EXCEPT !.data = [i \in DOMAIN df.data |->
                            [j \in DOMAIN df.columns |-> Num(0)]]]

\* cores = multiprocessing.cpu_count() - 2
pool_cores(cpu) == cpu - 2

\* math.ceil(total / (4 * cores)), cores >= 1
pool_chunksize(total, cores) == (total + 4 * cores - 1) \div (4 * cores)

\* The number of chunks imap cuts `total` tasks into.
chunk_count(total, chunksize) == (total + chunksize - 1) \div chunksize

\* The chunk that holds task i.
chunk_of(i, chunksize) == ((i - 1) \div chunksize) + 1

\* The body of the loop over pool.imap's results:
\* key = str(result.zfpkm.name); results[key] = result;
\* zfpkm_df[key] = result.zfpkm
store(acc, result) ==
    LET key == result.name
    IN [results |-> [k \in DOMAIN acc.results \cup {key} |->
                        IF k = key THEN result ELSE acc.results[k]],
        zfpkm_df |-> set_column(acc.zfpkm_df, key, result.zfpkm)]

\* The task imap runs for the n-th column.
task_result(fpkm_df, kde, n) ==
    LET name == fpkm_df.columns[n]
    IN zfpkm_calculation(column(fpkm_df, name), name, kde[name])

RECURSIVE collect(_, _, _, _)
\* The loop over pool.imap's results, after the first n have been yielded:
\* imap yields the results in the order the columns were submitted.
collect(fpkm_df, kde, n, acc) ==
    IF n = 0 THEN acc
    ELSE store(collect(fpkm_df, kde, n - 1, acc), task_result(fpkm_df, kde, n))

\* What zfpkm_transform(fpkm_df) returns: (results, zfpkm_df).
zfpkm_transform(fpkm_df, kde) ==
    collect(fpkm_df, kde, Len(fpkm_df.columns),
            [results |-> <<>>, zfpkm_df |-> zeros_like(fpkm_df)])

(***************************************************************************)
(* The transform specification: a matrix, the peaks of each column's       *)
(* density and the machine's core count are drawn; the pool's workers take *)
(* the chunks in submission order and finish them in any order, and the    *)
(* driving process collects what imap yields.                              *)
(***************************************************************************)
MaxSamples == 3
MaxCpu == 4

AllSampleNames == <<"a", "b", "c", "d", "e", "f">>
SampleNames(n) == SubSeq(AllSampleNames, 1, n)

\* The default RangeIndex, and entrez gene ids near and far from it.
TransformIndexes == {<<0, 1>>, <<101, 102>>}
TransformCells == {0, 3}

\* What find_peaks may report for a column: nothing, or one peak strictly
\* inside x_range, next to either of its ends.
PeakSets(col) ==
    LET col_log2 == np_log2(col)
        lowest == SeqMin(col_log2)
        highest == SeqMax(col_log2)
    IN {{}} \cup {{[x |-> p, y |-> 2]} :
                    p \in {lowest + 1, highest - 1}
                           \cap ((lowest + 1)..(highest - 1))}

Frames(index, names, cells) ==
    {[index |-> index, columns |-> names, data |-> d] :
        d \in [DOMAIN index -> [DOMAIN names -> cells]]}

\* The peaks of every column of a frame.
KdeOf(df) ==
    LET names == {df.columns[j] : j \in DOMAIN df.columns}
    IN {k \in [names -> UNION {PeakSets(column(df, n)) : n \in names}] :
           \A n \in names : k[n] \in PeakSets(column(df, n))}

ZtInit ==
    /\ GfIdle
    /\ AgIdle
    /\ FpIdle
    /\ ZcIdle
    /\ zt_pc = "call"
    /\ \E n \in 1..MaxSamples, index \in TransformIndexes :
          zt_fpkm_df \in Frames(index, SampleNames(n), TransformCells)
    /\ zt_kde \in KdeOf(zt_fpkm_df)
    /\ zt_cpu \in 1..MaxCpu
    /\ zt_tasks = <<>>
    /\ zt_outqueue = <<>>
    /\ zt_finished = <<>>
    /\ zt_i = 0
    /\ results = <<>>
    /\ zfpkm_df = EmptyFrame

zt_total == Len(zt_fpkm_df.columns)
zt_chunksize == pool_chunksize(zt_total, pool_cores(zt_cpu))

\* with Pool(processes=cores) as pool: ... up to the first wait on imap.
\* Pool raises ValueError for processes < 1.
EnterPool ==
    /\ zt_pc = "call"
    /\ IF pool_cores(zt_cpu) < 1
       THEN /\ zt_pc' = "raised"
            /\ UNCHANGED <<zt_tasks, zt_outqueue, zfpkm_df>>
       ELSE /\ zt_pc' = "pool"
            /\ zt_tasks' = [c \in 1..chunk_count(zt_total, zt_chunksize) |-> "queued"]
            /\ zt_outqueue' = [i \in 1..zt_total |-> <<>>]
            /\ zfpkm_df' = zeros_like(zt_fpkm_df)
    /\ UNCHANGED <<zt_fpkm_df, zt_kde, zt_cpu, zt_finished, zt_i, results,
                   gf_vars, ag_vars, fp_vars, zc_vars>>

\* An idle worker takes the next chunk of the task queue.
WorkerTakes(c) ==
    /\ zt_pc = "pool"
    /\ zt_tasks[c] = "queued"
    /\ \A b \in 1..(c - 1) : zt_tasks[b] # "queued"
    /\ Cardinality({b \in DOMAIN zt_tasks : zt_tasks[b] = "running"})
           < pool_cores(zt_cpu)
    /\ zt_tasks' = [zt_tasks EXCEPT ![c] = "running"]
    /\ UNCHANGED <<zt_pc, zt_fpkm_df, zt_kde, zt_cpu, zt_outqueue, zt_finished,
                   zt_i, results, zfpkm_df, gf_vars, ag_vars, fp_vars, zc_vars>>

\* A worker has run _zfpkm_calculation on every column of its chunk and
\* hands the results back.
WorkerFinishes(c) ==
    /\ zt_pc = "pool"
    /\ zt_tasks[c] = "running"
    /\ zt_tasks' = [zt_tasks EXCEPT ![c] = "finished"]
    /\ zt_outqueue' =
           [i \in DOMAIN zt_outqueue |->
               IF chunk_of(i, zt_chunksize) = c
               THEN <<task_result(zt_fpkm_df, zt_kde, i)>>
               ELSE zt_outqueue[i]]
    /\ zt_finished' = Append(zt_finished, c)
    /\ UNCHANGED <<zt_pc, zt_fpkm_df, zt_kde, zt_cpu, zt_i, results, zfpkm_df,
                   gf_vars, ag_vars, fp_vars, zc_vars>>

\* One turn of the for loop: imap yields the next result in submission
\* order, once its chunk is back, and the loop body stores it.
ImapYield ==
    /\ zt_pc = "pool"
    /\ zt_i < zt_total
    /\ zt_outqueue[zt_i + 1] # <<>>
    /\ LET acc == store([results |-> results, zfpkm_df |-> zfpkm_df],
                        zt_outqueue[zt_i + 1][1])
       IN /\ results' = acc.results
          /\ zfpkm_df' = acc.zfpkm_df
    /\ zt_i' = zt_i + 1
    /\ UNCHANGED <<zt_pc, zt_fpkm_df, zt_kde, zt_cpu, zt_tasks, zt_outqueue,
                   zt_finished, gf_vars, ag_vars, fp_vars, zc_vars>>

\* return results, zfpkm_df
ReturnTransform ==
    /\ zt_pc = "pool"
    /\ zt_i = zt_total
    /\ zt_pc' = "returned"
    /\ UNCHANGED <<zt_fpkm_df, zt_kde, zt_cpu, zt_tasks, zt_outqueue,
                   zt_finished, zt_i, results, zfpkm_df, gf_vars, ag_vars, fp_vars, zc_vars>>

ZtNext ==
    \/ EnterPool
    \/ \E c \in DOMAIN zt_tasks : WorkerTakes(c)
    \/ \E c \in DOMAIN zt_tasks : WorkerFinishes(c)
    \/ ImapYield
    \/ ReturnTransform

SpecTransform == ZtInit /\ [][ZtNext]_vars

frame_empty(df) == df.data = <<>> \/ df.columns = <<>>

\* A mutant of select: the elements kept come out last to first.
RECURSIVE select_reversed(_, _)
select_reversed(seq, mask) ==
    IF seq = <<>> \/ mask = <<>> THEN <<>>
    ELSE select_reversed(Tail(seq), Tail(mask))
         \o (IF Head(mask) THEN <<Head(seq)>> ELSE <<>>)

\* df.iloc[mask, :] and df[mask]: the rows whose mask entry is true, their
\* labels kept.
RECURSIVE select(_, _)
select(seq, mask) ==
    IF seq = <<>> \/ mask = <<>> THEN <<>>
    ELSE (IF Head(mask) THEN <<Head(seq)>> ELSE <<>>)
         \o select(Tail(seq), Tail(mask))

rows_where(df, mask) ==
    [df EXCEPT !.index = select(df.index, mask), !.data = select(df.data, mask)]

RECURSIVE gcd(_, _)
gcd(a, b) == IF b = 0 THEN a ELSE gcd(b, a % b)

RECURSIVE common_multiple(_)
common_multiple(sizes) ==
    IF sizes = <<>> THEN 1
    ELSE LET rest == common_multiple(Tail(sizes))
         IN (Head(sizes) \div gcd(Head(sizes), rest)) * rest

\* One column of calculate_tpm: exp(rate - log(sum(exp(rate))) + log(1e6))
\* with rate = log(count + 1) - log(gene_size), that is the share of
\* (count + 1) / gene_size in the column's total, times 1e6.
tpm_column(counts, gene_sizes) ==
    LET m == common_multiple(gene_sizes)
        weight == [i \in DOMAIN counts |->
                      (counts[i] + 1) * (m \div gene_sizes[i])]
        total == seq_sum(weight)
    IN [i \in DOMAIN counts |-> (weight[i] * 1000000) \div total]

\* calculate_tpm for one study: the TPM matrix, rows and columns as the
\* count matrix's.
tpm_matrix_of(metric) ==
    LET cm == metric.count_matrix
        cols == [j \in DOMAIN cm.columns |->
                    tpm_column(column(cm, cm.columns[j]), metric.gene_sizes)]
    IN [cm EXCEPT !.data = [i \in DOMAIN cm.data |->
                               [j \in DOMAIN cm.columns |-> cols[j][i]]]]

\* calculate_tpm(metrics)
calculate_tpm(metrics) ==
    [s \in DOMAIN metrics |->
        [metrics[s] EXCEPT !.normalization_matrix = tpm_matrix_of(metrics[s])]]

FloatInf == 1073741823   \* what the model holds for a float infinity

\* One column of calculate_fpkm.  Paired-end:
\* (count + 1) * 1e9 / (effective_length * n); single-end: the same with
\* the gene size for the effective length.  n is the column's total; a
\* column with no reads divides by zero and is infinite.
fpkm_column(counts, gene_sizes, layout, fragment_length) ==
    LET n == seq_sum(counts)
        length(i) == IF layout = "paired-end"
                     THEN gene_sizes[i] - (fragment_length + 1)
                     ELSE gene_sizes[i]
    IN [i \in DOMAIN counts |->
           IF n = 0 THEN FloatInf
           ELSE (counts[i] + 1) * (1000000000 \div (length(i) * n))]

\* calculate_fpkm for one study.  The matrix is built from the per-sample
\* arrays: its rows carry the default labels 0, 1, 2, ... and its columns
\* the count matrix's names.
fpkm_matrix_of(metric) ==
    LET cm == metric.count_matrix
        cols == [j \in DOMAIN cm.columns |->
                    fpkm_column(column(cm, cm.columns[j]), metric.gene_sizes,
                                metric.layout[j], metric.fragment_lengths[j])]
    IN [index |-> [i \in DOMAIN cm.data |-> i - 1],
        columns |-> cm.columns,
        data |-> [i \in DOMAIN cm.data |->
                     [j \in DOMAIN cm.columns |-> cols[j][i]]]]

\* calculate_fpkm(metrics)
calculate_fpkm(metrics) ==
    [s \in DOMAIN metrics |->
        [metrics[s] EXCEPT !.normalization_matrix = fpkm_matrix_of(metrics[s])]]

\* A mutant of z_score_raises: a negative value raises too.
z_score_raises_nonpositive(metric) ==
    \/ metric.normalization_matrix.data = <<>>
    \/ \E i \in DOMAIN metric.normalization_matrix.data :
          \E j \in DOMAIN metric.normalization_matrix.data[i] :
              metric.normalization_matrix.data[i][j] <= 0

\* calculate_z_score for one study: np.log of the normalization matrix and
\* sklearn's scale.  scale raises ValueError for a matrix without rows and
\* for one that is not finite (the log of 0).
z_score_raises(metric) ==
    \/ metric.normalization_matrix.data = <<>>
    \/ \E i \in DOMAIN metric.normalization_matrix.data :
          \E j \in DOMAIN metric.normalization_matrix.data[i] :
              metric.normalization_matrix.data[i][j] = 0

(***************************************************************************)
(* FilteringPipeline                                                       *)
(***************************************************************************)
\* Python's round(ratio * n) for ratio = <<p, q>>: to the nearest integer,
\* a half to the even one.
round_half_up(ratio, n) == (2 * ratio[1] * n + ratio[2]) \div (2 * ratio[2])

round(ratio, n) ==
    LET whole == (ratio[1] * n) \div ratio[2]
        rest == (ratio[1] * n) % ratio[2]
    IN IF 2 * rest < ratio[2] THEN whole
       ELSE IF 2 * rest > ratio[2] THEN whole + 1
       ELSE IF whole % 2 = 0 THEN whole ELSE whole + 1

RECURSIVE insert_sorted(_, _)
insert_sorted(sorted, x) ==
    IF sorted = <<>> THEN <<x>>
    ELSE IF x <= Head(sorted) THEN <<x>> \o sorted
    ELSE <<Head(sorted)>> \o insert_sorted(Tail(sorted), x)

RECURSIVE sort(_)
sort(seq) == IF seq = <<>> THEN <<>> ELSE insert_sorted(sort(Tail(seq)), Head(seq))

\* value > np.quantile(values, q = 1 - cut_off / 100), numpy's default
\* (linear) method: the quantile lies at position (n - 1) * q of the sorted
\* values, between two of them in proportion to the position's fraction.
above_quantile(value, values, cut_off) ==
    LET sorted == sort(values)
        place == (Len(values) - 1) * (100 - cut_off)
        lower == place \div 100
        part == place % 100
        upper == IF part = 0 THEN lower ELSE lower + 1
    IN 100 * value >
           100 * sorted[lower + 1] + part * (sorted[upper + 1] - sorted[lower + 1])

\* boolean_expression of tpm_quantile_filter: 1 where the TPM value exceeds
\* its sample's quantile cutoff, else 0 (in hundredths, as k_over_a's 0.9).
boolean_expression(tpm, cut_off) ==
    [kind |-> "DataFrame",
     rows |-> [i \in DOMAIN tpm.data |->
                 [j \in DOMAIN tpm.columns |->
                     IF above_quantile(tpm.data[i][j],
                                       column(tpm, tpm.columns[j]), cut_off)
                     THEN Num(ZScale) ELSE Num(0)]]]

\* The loop body of tpm_quantile_filter for one study.
tpm_quantile_study(metric, options) ==
    LET entrez_ids == metric.entrez_gene_ids
        tpm_matrix == metric.normalization_matrix
        min_samples == round(options.replicate_ratio, Len(tpm_matrix.columns))
        top_samples == round(options.high_replicate_ratio, Len(tpm_matrix.columns))
        expression == boolean_expression(tpm_matrix, options.cut_off)
        min_genes == genefilter(expression, min_samples, (9 * ZScale) \div 10).value
        top_genes == genefilter(expression, top_samples, (9 * ZScale) \div 10).value
        keep_top_genes == select(entrez_ids, top_genes)
    IN [metric EXCEPT
           !.entrez_gene_ids = select(entrez_ids, min_genes),
           !.gene_sizes = select(metric.gene_sizes, min_genes),
           !.count_matrix = rows_where(metric.count_matrix, min_genes),
           !.normalization_matrix = rows_where(tpm_matrix, min_genes),
           \* zip(entrez_ids, keep_top_genes): keep is a gene id, true when
           \* it is not 0
           !.high_confidence_entrez_gene_ids =
               select(entrez_ids,
                      [i \in DOMAIN keep_top_genes |-> keep_top_genes[i] # 0])]

\* The matrix zfpkm_filter hands to zfpkm_transform: the normalization
\* matrix, or the count matrix when that is empty, without the rows whose
\* sum is not positive (the cells are never negative).
zfpkm_input(metric) ==
    LET matrix == IF frame_empty(metric.normalization_matrix)
                  THEN metric.count_matrix
                  ELSE metric.normalization_matrix
    IN rows_where(matrix,
                  [i \in DOMAIN matrix.data |->
                      \E j \in DOMAIN matrix.data[i] : matrix.data[i][j] > 0])

\* A mutant of set_minimums: the z-matrix is left as the transform made it.
set_minimums_skipped(z_df, matrix) == z_df

\* zfpkm_df[minimums] = -4, minimums = (matrix == 0)
set_minimums(z_df, matrix) ==
    [z_df EXCEPT !.data =
        [i \in DOMAIN z_df.data |->
            [j \in DOMAIN z_df.data[i] |->
                IF j \in DOMAIN matrix.data[i] /\ matrix.data[i][j] = 0
                THEN Num(-4 * ZScale) ELSE z_df.data[i][j]]]]

\* Whether the loop body of zfpkm_filter raises for the study: Pool refuses
\* fewer than one process; a worker cannot fit a kernel to a column without
\* values; zfpkm_plot divides by len(results) - 1.
zfpkm_raises(metric, cpu) ==
    LET matrix == zfpkm_input(metric)
    IN \/ pool_cores(cpu) < 1
       \/ matrix.data = <<>>
       \/ Len(matrix.columns) = 1

\* The z-matrix zfpkm_filter selects the genes from.
zfpkm_selection_df(metric, kde) ==
    LET matrix == zfpkm_input(metric)
    IN set_minimums(zfpkm_transform(matrix, kde).zfpkm_df, matrix)

\* A mutant of high_confidence_ids: the ids are taken from the list as it
\* was before the expressed genes were kept.
high_confidence_ids_unfiltered(before, kept, top_genes) == select(before, top_genes)

\* metric.high_confidence_entrez_gene_ids of zfpkm_filter: zip pairs the
\* list just assigned to metric.entrez_gene_ids with top_genes.
high_confidence_ids(before, kept, top_genes) == select(kept, top_genes)

\* The loop body of zfpkm_filter for one study that does not raise.
zfpkm_study(metric, options, kde) ==
    LET z_df == zfpkm_selection_df(metric, kde)
        frame == [kind |-> "DataFrame", rows |-> z_df.data]
        min_samples == round(options.replicate_ratio, Len(z_df.columns))
        min_genes == genefilter(frame, min_samples, options.cut_off * ZScale).value
        top_samples == round(options.high_replicate_ratio, Len(z_df.columns))
        top_genes == genefilter(frame, top_samples, options.cut_off * ZScale).value
        kept == select(metric.entrez_gene_ids, min_genes)
    IN [metric EXCEPT
           !.entrez_gene_ids = kept,
           !.high_confidence_entrez_gene_ids =
               high_confidence_ids(metric.entrez_gene_ids, kept, top_genes)]

\* calculate_z_score(metrics) over the first n studies: the matrix scale
\* returns has the study's sample names for columns and default row labels.
\* Its values are not modelled.
RECURSIVE calculate_z_score(_, _)
calculate_z_score(metrics, n) ==
    IF n = 0 THEN [raised |-> FALSE, metrics |-> metrics]
    ELSE LET before == calculate_z_score(metrics, n - 1)
             norm == metrics[n].normalization_matrix
         IN IF before.raised THEN before
            ELSE IF z_score_raises(metrics[n])
            THEN [raised |-> TRUE, metrics |-> before.metrics]
            ELSE [raised |-> FALSE,
                  metrics |->
                      [before.metrics EXCEPT ![n].z_score_matrix =
                          [index |-> [i \in DOMAIN norm.data |-> i - 1],
                           columns |-> metrics[n].sample_names,
                           data |-> [i \in DOMAIN norm.data |->
                                        [j \in DOMAIN norm.columns |-> Num(0)]]]]]

(***************************************************************************)
(* The pipeline specification: save_rnaseq_tests and filter_counts on the  *)
(* metrics of no study or of one study of three genes.  The preparation    *)
(* method, the technique, the options, the counts, the gene ids, the       *)
(* layout, the core count and (for the zFPKM techniques) the peaks of each *)
(* column's density are drawn.  A study's samples share one layout.  Gene  *)
(* i has size 500 * i and the fragments are 100 long, so that an effective *)
(* length is never below calculate_fpkm's floor of 1e-9.                   *)
(***************************************************************************)
StudyGenes == 1..3
Techniques == {"cpm", "tpm", "zfpkm", "umi"}
ReplicateRatios == {<<1, 2>>, <<1, 1>>}
SampleCounts == {1, 2}
CpuCounts == {2, 4}
CountCells == {0, 3}
Layouts == {"paired-end", "single-end"}

\* entrez gene ids that are row positions, and ids far from any.
EntrezIds == { [i \in StudyGenes |-> i], [i \in StudyGenes |-> 100 + i] }

\* cut_off: a percentage for the quantile, a z-value for the zFPKM
\* techniques, a number of counts per million for CPM.
CutOffs(technique) ==
    IF technique = "tpm" THEN {25, 50}
    ELSE IF technique = "cpm" THEN {1, 2}
    ELSE {-3, 0}

\* The _StudyMetrics _read_counts_matrix builds for a study: the count
\* matrix's rows are labelled by the entrez gene ids.
StudyMetrics(ids, names, layout, counts) ==
    [count_matrix |-> [index |-> ids, columns |-> names, data |-> counts],
     fragment_lengths |-> [j \in DOMAIN names |-> 100],
     sample_names |-> names,
     layout |-> layout,
     num_samples |-> Len(names),
     entrez_gene_ids |-> ids,
     gene_sizes |-> [i \in DOMAIN ids |-> 500 * i],
     normalization_matrix |-> EmptyFrame,
     z_score_matrix |-> EmptyFrame,
     high_confidence_entrez_gene_ids |-> <<>>]

Studies ==
    UNION { { StudyMetrics(ids, SampleNames(n), layout, counts) :
                ids \in EntrezIds,
                layout \in {[j \in 1..n |-> l] : l \in Layouts},
                counts \in [StudyGenes -> [1..n -> CountCells]] }
            : n \in SampleCounts }

\* The peaks of the densities zfpkm_filter will meet for a study: none
\* when no density is computed (another technique, no pool, no rows).
StudyKdes(technique, metric, cpu) ==
    LET matrix == zfpkm_input(IF technique = "zfpkm"
                              THEN calculate_fpkm(<<metric>>)[1] ELSE metric)
    IN IF /\ technique \in {"zfpkm", "umi"}
          /\ pool_cores(cpu) >= 1
          /\ matrix.data # <<>>
       THEN KdeOf(matrix) ELSE {<<>>}

RECURSIVE KdesFor(_, _, _)
KdesFor(technique, metrics, cpu) ==
    IF metrics = <<>> THEN {<<>>}
    ELSE {<<k>> \o rest : k \in StudyKdes(technique, Head(metrics), cpu),
                          rest \in KdesFor(technique, Tail(metrics), cpu)}

\* The technique save_rnaseq_tests hands to filter_counts.
technique_used(prep, technique) == IF prep = "scrna" THEN "umi" ELSE technique

\* The preparation method and the technique asked for: every technique for
\* bulk data, two of them for single-cell data.
Requests ==
    {<<"total", t>> : t \in Techniques} \cup {<<"scrna", t>> : t \in {"cpm", "zfpkm"}}

\* Studies on which calculate_tpm has run before filter_counts is called.
NormalizedBefore == {calculate_tpm(<<m>>)[1] : m \in Studies}

\* Either save_rnaseq_tests is entered, with the metrics as
\* _read_counts_matrix will build them, or filter_counts is called on
\* metrics that were normalized before (technique umi: the others compute
\* their normalization matrix anew or do not read it).
FpInit ==
    /\ GfIdle
    /\ AgIdle
    /\ ZtIdle
    /\ ZcIdle
    /\ \/ /\ fp_pc = "save_rnaseq_tests"
          /\ \E request \in Requests :
                /\ fp_prep = request[1]
                /\ fp_technique = request[2]
          /\ fp_metrics \in {<<>>} \cup {<<m>> : m \in Studies}
       \/ /\ fp_pc = "call"
          /\ fp_prep = "total"
          /\ fp_technique = "umi"
          /\ fp_metrics \in {<<m>> : m \in NormalizedBefore}
    /\ fp_options \in [replicate_ratio : ReplicateRatios,
                       high_replicate_ratio : ReplicateRatios,
                       cut_off : CutOffs(technique_used(fp_prep, fp_technique))]
    /\ fp_input = fp_metrics
    /\ fp_cpu \in CpuCounts
    /\ fp_kde \in KdesFor(technique_used(fp_prep, fp_technique), fp_metrics, fp_cpu)
    /\ fp_pos = 0

\* save_rnaseq_tests up to the call of filter_counts: single-cell data is
\* filtered as UMI counts whatever technique was asked for.
SaveRnaseqTests ==
    /\ fp_pc = "save_rnaseq_tests"
    /\ fp_pc' = "call"
    /\ fp_technique' = technique_used(fp_prep, fp_technique)
    /\ UNCHANGED <<fp_prep, fp_options, fp_metrics, fp_input, fp_kde, fp_cpu,
                   fp_pos, gf_vars, ag_vars, zt_vars, zc_vars>>

\* filter_counts, case FilteringTechnique.cpm: cpm_filter up to its loop.
EnterCpmFilter ==
    /\ fp_pc = "call"
    /\ fp_technique = "cpm"
    /\ fp_pc' = "cpm_filter"
    /\ fp_pos' = 1
    /\ UNCHANGED <<fp_prep, fp_technique, fp_options, fp_metrics, fp_input, fp_kde, fp_cpu,
                   gf_vars, ag_vars, zt_vars, zc_vars>>

\* The loop body of cpm_filter for one study: the CPM matrix is written,
\* and the first cutoff is computed from counts[:, i], which a DataFrame
\* refuses: it raises for the first column of counts_per_million (there is
\* always one, the entrez_gene_ids column inserted at position 0).
CpmStudy ==
    /\ fp_pc = "cpm_filter"
    /\ fp_pos <= Len(fp_metrics)
    /\ fp_pc' = "raised"
    /\ UNCHANGED <<fp_prep, fp_technique, fp_options, fp_metrics, fp_input, fp_kde, fp_cpu,
                   fp_pos, gf_vars, ag_vars, zt_vars, zc_vars>>

\* cpm_filter's return metrics, the loop over.
CpmReturn ==
    /\ fp_pc = "cpm_filter"
    /\ fp_pos > Len(fp_metrics)
    /\ fp_pc' = "returned"
    /\ UNCHANGED <<fp_prep, fp_technique, fp_options, fp_metrics, fp_input, fp_kde, fp_cpu,
                   fp_pos, gf_vars, ag_vars, zt_vars, zc_vars>>

\* filter_counts, case FilteringTechnique.tpm: tpm_quantile_filter up to
\* its loop.
EnterTpmQuantileFilter ==
    /\ fp_pc = "call"
    /\ fp_technique = "tpm"
    /\ fp_pc' = "tpm_quantile_filter"
    /\ fp_metrics' = calculate_tpm(fp_metrics)
    /\ fp_pos' = 1
    /\ UNCHANGED <<fp_prep, fp_technique, fp_options, fp_input, fp_kde, fp_cpu,
                   gf_vars, ag_vars, zt_vars, zc_vars>>

TpmQuantileStudy ==
    /\ fp_pc = "tpm_quantile_filter"
    /\ fp_pos <= Len(fp_metrics)
    /\ fp_metrics' = [fp_metrics EXCEPT
                         ![fp_pos] = tpm_quantile_study(fp_metrics[fp_pos], fp_options)]
    /\ fp_pos' = fp_pos + 1
    /\ UNCHANGED <<fp_pc, fp_prep, fp_technique, fp_options, fp_input, fp_kde, fp_cpu,
                   gf_vars, ag_vars, zt_vars, zc_vars>>

\* metrics = calculate_z_score(metrics); return metrics
TpmQuantileReturn ==
    /\ fp_pc = "tpm_quantile_filter"
    /\ fp_pos > Len(fp_metrics)
    /\ LET scored == calculate_z_score(fp_metrics, Len(fp_metrics))
       IN /\ fp_metrics' = scored.metrics
          /\ fp_pc' = IF scored.raised THEN "raised" ELSE "returned"
    /\ UNCHANGED <<fp_prep, fp_technique, fp_options, fp_input, fp_kde, fp_cpu, fp_pos,
                   gf_vars, ag_vars, zt_vars, zc_vars>>

\* filter_counts, cases FilteringTechnique.zfpkm and .umi: zfpkm_filter up
\* to its loop, with calcualte_fpkm true for zfpkm only.
EnterZfpkmFilter ==
    /\ fp_pc = "call"
    /\ fp_technique \in {"zfpkm", "umi"}
    /\ fp_pc' = "zfpkm_filter"
    /\ fp_metrics' = IF fp_technique = "zfpkm"
                     THEN calculate_fpkm(fp_metrics) ELSE fp_metrics
    /\ fp_pos' = 1
    /\ UNCHANGED <<fp_prep, fp_technique, fp_options, fp_input, fp_kde, fp_cpu,
                   gf_vars, ag_vars, zt_vars, zc_vars>>

ZfpkmStudy ==
    /\ fp_pc = "zfpkm_filter"
    /\ fp_pos <= Len(fp_metrics)
    /\ IF zfpkm_raises(fp_metrics[fp_pos], fp_cpu)
       THEN /\ fp_pc' = "raised"
            /\ UNCHANGED <<fp_metrics, fp_pos>>
       ELSE /\ fp_metrics' =
                   [fp_metrics EXCEPT
                       ![fp_pos] = zfpkm_study(fp_metrics[fp_pos], fp_options,
                                               fp_kde[fp_pos])]
            /\ fp_pos' = fp_pos + 1
            /\ UNCHANGED fp_pc
    /\ UNCHANGED <<fp_prep, fp_technique, fp_options, fp_input, fp_kde, fp_cpu,
                   gf_vars, ag_vars, zt_vars, zc_vars>>

\* zfpkm_filter's return metrics, the loop over.
ZfpkmReturn ==
    /\ fp_pc = "zfpkm_filter"
    /\ fp_pos > Len(fp_metrics)
    /\ fp_pc' = "returned"
    /\ UNCHANGED <<fp_prep, fp_technique, fp_options, fp_metrics, fp_input, fp_kde, fp_cpu,
                   fp_pos, gf_vars, ag_vars, zt_vars, zc_vars>>

FpNext ==
    \/ SaveRnaseqTests
    \/ EnterCpmFilter
    \/ CpmStudy
    \/ CpmReturn
    \/ EnterTpmQuantileFilter
    \/ TpmQuantileStudy
    \/ TpmQuantileReturn
    \/ EnterZfpkmFilter
    \/ ZfpkmStudy
    \/ ZfpkmReturn

SpecPipeline == FpInit /\ [][FpNext]_vars

IdSet(list) == {list[i] : i \in DOMAIN list}

(***************************************************************************)
(* C1: after filter_counts returns, whatever the technique, every study's  *)
(* entrez_gene_ids has as many ids as its count_matrix has rows, and the   *)
(* i-th id labels the i-th row.                                            *)
(***************************************************************************)
C1_Alignment ==
    fp_pc = "returned" =>
        \A s \in DOMAIN fp_metrics :
            /\ Len(fp_metrics[s].entrez_gene_ids) = Len(fp_metrics[s].count_matrix.data)
            /\ fp_metrics[s].entrez_gene_ids = fp_metrics[s].count_matrix.index

(***************************************************************************)
(* C2: after filter_counts returns, whatever the technique and the two     *)
(* replicate ratios, every id of a study's                                 *)
(* high_confidence_entrez_gene_ids is among its entrez_gene_ids.           *)
(***************************************************************************)
C2_HighConfidenceSubset ==
    fp_pc = "returned" =>
        \A s \in DOMAIN fp_metrics :
            IdSet(fp_metrics[s].high_confidence_entrez_gene_ids)
                \subseteq IdSet(fp_metrics[s].entrez_gene_ids)

\* The matrix the zFPKM techniques transform for study s, all its rows
\* kept: the FPKM matrix for zfpkm, the counts for umi.
ZInputMatrix(s) ==
    IF fp_technique = "zfpkm"
    THEN fpkm_matrix_of(fp_input[s])
    ELSE fp_input[s].count_matrix

RowExpressed(matrix, i) == \E j \in DOMAIN matrix.data[i] : matrix.data[i][j] > 0

\* The zFPKM row of gene i of study s: per sample, -4 for a zero cell, else
\* the z-value of the gene's own cell, computed from the sample's column
\* of the rows that are not all zero.
ZRow(s, i) ==
    LET all == ZInputMatrix(s)
        matrix == rows_where(all, [h \in DOMAIN all.data |-> RowExpressed(all, h)])
        place == Cardinality({h \in 1..i : RowExpressed(all, h)})
    IN [j \in DOMAIN all.columns |->
           IF all.data[i][j] = 0 THEN Num(-4 * ZScale)
           ELSE zfpkm_calculation(column(matrix, all.columns[j]), all.columns[j],
                                  fp_kde[s][all.columns[j]]).zfpkm[place]]

(***************************************************************************)
(* C7: after zfpkm_filter (techniques zfpkm and umi) a gene id is in       *)
(* entrez_gene_ids iff it was there before and the zFPKM row of that same  *)
(* gene has at least round(replicate_ratio * samples) values >= cut_off,   *)
(* and it is in high_confidence_entrez_gene_ids iff that row has at least  *)
(* round(high_replicate_ratio * samples) such values; rows that are all    *)
(* zero included.                                                          *)
(***************************************************************************)
C7_RowAligned ==
    (fp_pc = "returned" /\ fp_technique \in {"zfpkm", "umi"}) =>
        \A s \in DOMAIN fp_metrics :
            LET ids == fp_input[s].entrez_gene_ids
                n == Len(fp_input[s].count_matrix.columns)
                passes(i, ratio) ==
                    CountGe(ZRow(s, i), fp_options.cut_off * ZScale) >= round(ratio, n)
            IN /\ IdSet(fp_metrics[s].entrez_gene_ids) =
                      {ids[i] : i \in {h \in DOMAIN ids :
                                          passes(h, fp_options.replicate_ratio)}}
               /\ IdSet(fp_metrics[s].high_confidence_entrez_gene_ids) =
                      {ids[i] : i \in {h \in DOMAIN ids :
                                          passes(h, fp_options.high_replicate_ratio)}}

(***************************************************************************)
(* C8: after tpm_quantile_filter, a study's                                *)
(* high_confidence_entrez_gene_ids is the list of the genes whose own      *)
(* binarized row passes k_over_a(top_samples, 0.9) and                     *)
(* k_over_a(min_samples, 0.9), a binarized cell being 1 iff the TPM value  *)
(* exceeds its sample's quantile cutoff.                                   *)
(***************************************************************************)
C8_TpmHighConfidence ==
    (fp_pc = "returned" /\ fp_technique = "tpm") =>
        \A s \in DOMAIN fp_metrics :
            LET ids == fp_input[s].entrez_gene_ids
                tpm == tpm_matrix_of(fp_input[s])
                n == Len(tpm.columns)
                binarized == boolean_expression(tpm, fp_options.cut_off).rows
                ones(i) == CountGe(binarized[i], (9 * ZScale) \div 10)
            IN fp_metrics[s].high_confidence_entrez_gene_ids =
                   select(ids,
                          [i \in DOMAIN ids |->
                              /\ ones(i) >= round(fp_options.high_replicate_ratio, n)
                              /\ ones(i) >= round(fp_options.replicate_ratio, n)])

(***************************************************************************)
(* C9: cpm_filter returns normally for any non-empty count matrix (and     *)
(* then entrez_gene_ids holds the genes whose CPM exceeds the cutoff in    *)
(* enough samples): filter_counts with the CPM technique never ends in an  *)
(* exception when there is a study.                                        *)
(***************************************************************************)
C9_CpmFilter ==
    (fp_technique = "cpm" /\ fp_input # <<>>) => fp_pc # "raised"

RECURSIVE IsSubList(_, _)
\* sub is list with some elements dropped, the order of the rest kept.
IsSubList(sub, list) ==
    IF sub = <<>> THEN TRUE
    ELSE IF list = <<>> THEN FALSE
    ELSE IF Head(sub) = Head(list) THEN IsSubList(Tail(sub), Tail(list))
    ELSE IsSubList(sub, Tail(list))

(***************************************************************************)
(* C11: at every point of filter_counts, whatever the technique, a study's *)
(* entrez_gene_ids and high_confidence_entrez_gene_ids hold only ids of    *)
(* the entrez_gene_ids the study came with, in the same relative order and *)
(* none more often than there: ids are dropped, never added or reordered.  *)
(***************************************************************************)
C11_OnlyDropped ==
    \A s \in DOMAIN fp_metrics :
        /\ IsSubList(fp_metrics[s].entrez_gene_ids, fp_input[s].entrez_gene_ids)
        /\ IsSubList(fp_metrics[s].high_confidence_entrez_gene_ids,
                     fp_input[s].entrez_gene_ids)

\* A stage has returned having dropped some ids and kept at least two, with
\* a high-confidence list that is not empty.
C11_Witness ==
    /\ fp_pc = "returned"
    /\ fp_metrics # <<>>
    /\ Len(fp_metrics[1].entrez_gene_ids) >= 2
    /\ Len(fp_metrics[1].entrez_gene_ids) < Len(fp_input[1].entrez_gene_ids)
    /\ fp_metrics[1].high_confidence_entrez_gene_ids # <<>>

(***************************************************************************)
(* The z-score specification: calculate_z_score on the metrics of one or   *)
(* two studies whose normalization matrices are drawn, empty ones and ones *)
(* with zero and negative values among them.                               *)
(***************************************************************************)
NormalizationCells == {-2, 0, 1, 4}

NormalizationMatrices(names) ==
    UNION { Frames([i \in 1..rows |-> i - 1], names, NormalizationCells)
            : rows \in 0..2 }

\* A study with a normalization matrix already computed.
NormalizedStudies(n) ==
    { [StudyMetrics([i \in 1..Len(m.data) |-> i], m.columns,
                    [j \in 1..n |-> "paired-end"],
                    [i \in 1..Len(m.data) |-> [j \in 1..n |-> 0]])
          EXCEPT !.normalization_matrix = m]
      : m \in NormalizationMatrices(SampleNames(n)) }

ZsInit ==
    /\ GfIdle
    /\ AgIdle
    /\ ZtIdle
    /\ ZcIdle
    /\ fp_pc = "calculate_z_score"
    /\ fp_prep = "total"
    /\ fp_technique = "tpm"
    /\ fp_options = [replicate_ratio |-> <<0, 1>>, high_replicate_ratio |-> <<0, 1>>,
                     cut_off |-> 0]
    /\ fp_metrics \in {<<m>> : m \in NormalizedStudies(2)}
                      \cup {<<m1, m2>> : m1 \in NormalizedStudies(1),
                                         m2 \in NormalizedStudies(1)}
    /\ fp_input = fp_metrics
    /\ fp_kde = <<>>
    /\ fp_cpu = 0
    /\ fp_pos = 0

\* calculate_z_score(metrics)
CalculateZScore ==
    /\ fp_pc = "calculate_z_score"
    /\ LET scored == calculate_z_score(fp_metrics, Len(fp_metrics))
       IN /\ fp_metrics' = scored.metrics
          /\ fp_pc' = IF scored.raised THEN "raised" ELSE "returned"
    /\ UNCHANGED <<fp_prep, fp_technique, fp_options, fp_input, fp_kde, fp_cpu, fp_pos,
                   gf_vars, ag_vars, zt_vars, zc_vars>>

ZsNext == CalculateZScore

SpecZScore == ZsInit /\ [][ZsNext]_vars

HasNoRows(s) == fp_input[s].normalization_matrix.data = <<>>

HasCell(s, P(_)) ==
    \E i \in DOMAIN fp_input[s].normalization_matrix.data :
        \E j \in DOMAIN fp_input[s].normalization_matrix.data[i] :
            P(fp_input[s].normalization_matrix.data[i][j])

\* The first study for which P holds (one past the last study: none).
FirstStudy(P(_)) ==
    IF \E s \in DOMAIN fp_input : P(s)
    THEN CHOOSE s \in DOMAIN fp_input : P(s) /\ \A t \in 1..(s - 1) : ~P(t)
    ELSE Len(fp_input) + 1

\* calculate_z_score has stopped at study `first` with an error, or has
\* returned when there is no such study; z_score_matrix is set for the
\* studies before `first` and is the empty default from `first` on.
StoppedAt(first) ==
    /\ fp_pc = IF first <= Len(fp_input) THEN "raised" ELSE "returned"
    /\ \A s \in DOMAIN fp_metrics :
          IF s < first
          THEN /\ fp_metrics[s].z_score_matrix.columns = fp_input[s].sample_names
               /\ Len(fp_metrics[s].z_score_matrix.data)
                      = Len(fp_input[s].normalization_matrix.data)
          ELSE fp_metrics[s].z_score_matrix = EmptyFrame

ColumnCells == {0, 1, 3, 7}
ColumnLengths == 0..3
PeakHeights == {1, 2}

Columns == UNION {[1..n -> ColumnCells] : n \in ColumnLengths}

\* A mutant of PeakPoints: the first and the last sample of the density
\* may be reported as peaks.
PeakPointsWithEnds(col) ==
    IF col = <<>> THEN {}
    ELSE {[x |-> p, y |-> h] :
             p \in SeqMin(np_log2(col))..SeqMax(np_log2(col)),
             h \in PeakHeights}

\* The points find_peaks may report for a column: never the first or the
\* last sample of the density.
PeakPoints(col) ==
    IF col = <<>> THEN {}
    ELSE {[x |-> p, y |-> h] :
             p \in (SeqMin(np_log2(col)) + 1)..(SeqMax(np_log2(col)) - 1),
             h \in PeakHeights}

FoundPeaks(col) ==
    {ps \in SUBSET PeakPoints(col) :
        /\ Cardinality(ps) <= 2
        /\ \A p, q \in ps : p.x = q.x => p = q}

\* A mutant of fit_raises: the kernel is fitted to no values without error.
fit_accepts_empty(col) == FALSE

\* kernel.fit(col_log2.reshape(-1, 1)) raises ValueError for an array
\* without samples.
fit_raises(col) == col = <<>>

ZcInit ==
    /\ GfIdle
    /\ AgIdle
    /\ ZtIdle
    /\ FpIdle
    /\ zc_pc = "call"
    /\ zc_col \in Columns
    /\ zc_peaks \in FoundPeaks(zc_col)
    /\ zc_result = <<>>

\* _zfpkm_calculation(col, kernel, peak_parameters)
CallZfpkmCalculation ==
    /\ zc_pc = "call"
    /\ IF fit_raises(zc_col)
       THEN /\ zc_pc' = "raised"
            /\ UNCHANGED zc_result
       ELSE /\ zc_pc' = "returned"
            /\ zc_result' = zfpkm_calculation(zc_col, "a", zc_peaks)
    /\ UNCHANGED <<zc_col, zc_peaks, gf_vars, ag_vars, zt_vars, fp_vars>>

ZcNext == CallZfpkmCalculation

SpecCalculation == ZcInit /\ [][ZcNext]_vars

\* log2(v + 1) to its integer part.
Log2Of(v) == CHOOSE e \in 0..30 : 2^e <= v + 1 /\ v + 1 < 2^(e + 1)

\* The result is the no-peak fallback: mu = 0, std_dev = 1, max density 0
\* and zfpkm = log2(col + 1).
IsFallback ==
    /\ zc_result.mu = 0
    /\ zc_result.std_dev = Num(ZScale)
    /\ zc_result.max_fpkm = 0
    /\ DOMAIN zc_result.zfpkm = DOMAIN zc_col
    /\ \A i \in DOMAIN zc_col :
          zc_result.zfpkm[i] = Num(ZScale * Log2Of(zc_col[i]))

(***************************************************************************)
(* C13, as the code has it: _zfpkm_calculation returns a result for every  *)
(* column that has at least one value, constant and all-zero columns       *)
(* included, and raises for a column without values; when no peak is found *)
(* the result has mu = 0, std_dev = 1, max density 0 and zfpkm equal to    *)
(* log2(col + 1).                                                          *)
(***************************************************************************)
C13_FallbackForNonEmpty ==
    /\ zc_pc = "raised" <=> (zc_pc # "call" /\ zc_col = <<>>)
    /\ (zc_pc = "returned" /\ zc_peaks = {}) => IsFallback

\* An all-zero column of three values went through with no peak found.
C13_Witness ==
    /\ zc_pc = "returned"
    /\ zc_col = <<0, 0, 0>>
    /\ zc_peaks = {}
    /\ zc_result.zfpkm = <<Num(0), Num(0), Num(0)>>

(***************************************************************************)
(* C13, as stated: for every input column _zfpkm_calculation returns a     *)
(* result and raises no error, and when no peak is found the result is the *)
(* fallback.                                                               *)
(***************************************************************************)
C13_FallbackTotal ==
    /\ zc_pc # "raised"
    /\ (zc_pc = "returned" /\ zc_peaks = {}) => IsFallback

(***************************************************************************)
(* C14: whenever find_peaks reports at least one peak, mu is the largest   *)
(* x-position among the peaks and the max density reported is the density *)
(* at that same peak, not at the tallest or any other one.                 *)
(***************************************************************************)
C14_PeakSelection ==
    (zc_pc = "returned" /\ zc_peaks # {}) =>
        /\ \E p \in zc_peaks : zc_result.mu = p.x /\ zc_result.max_fpkm = p.y
        /\ \A p \in zc_peaks : p.x <= zc_result.mu

\* Two peaks, the taller one to the left: the lower one is selected.
C14_Witness ==
    /\ zc_pc = "returned"
    /\ zc_peaks = {[x |-> 1, y |-> 2], [x |-> 2, y |-> 1]}
    /\ zc_result.mu = 2
    /\ zc_result.max_fpkm = 1

TransformInput(s) == zfpkm_input(fp_metrics[s])
TransformOutput(s) == zfpkm_transform(TransformInput(s), fp_kde[s]).zfpkm_df

\* -4 where the transformed matrix was exactly 0, elsewhere the cell of
\* the z-matrix the transform returned.
WithSentinel(s) ==
    LET input == TransformInput(s)
        output == TransformOutput(s)
    IN [i \in DOMAIN input.data |->
           [j \in DOMAIN input.columns |->
               IF input.data[i][j] = 0
               THEN Num(-4 * ZScale)
               ELSE output.data[i][j]]]

\* The ids zfpkm_filter keeps when the k-over-a decision is taken on the
\* rows of z_rows.
KeptBy(s, z_rows) ==
    select(fp_input[s].entrez_gene_ids,
           [i \in DOMAIN z_rows |->
               CountGe(z_rows[i], fp_options.cut_off * ZScale)
                   >= round(fp_options.replicate_ratio,
                            Len(TransformInput(s).columns))])

(***************************************************************************)
(* C16: in zfpkm_filter the z-matrix the k-over-a decision is taken on     *)
(* holds exactly -4 in every cell whose value in the transformed matrix    *)
(* (FPKM for zfpkm, counts for umi) was exactly 0, and in every other cell *)
(* the value zfpkm_transform returned there.                               *)
(***************************************************************************)
C16_ZeroSentinel ==
    (fp_pc = "returned" /\ fp_technique \in {"zfpkm", "umi"}) =>
        \A s \in DOMAIN fp_metrics :
            LET decided_on == WithSentinel(s)
            IN /\ zfpkm_selection_df(fp_metrics[s], fp_kde[s]).data = decided_on
               /\ fp_metrics[s].entrez_gene_ids = KeptBy(s, decided_on)

\* A study with a zero count in a row that is not all zero, where the
\* sentinel decides: without it another list of ids would be kept.
C16_Witness ==
    /\ fp_pc = "returned"
    /\ fp_technique = "umi"
    /\ fp_metrics # <<>>
    /\ LET input == TransformInput(1)
           output == TransformOutput(1)
       IN /\ \E i \in DOMAIN input.data :
                \E j \in DOMAIN input.data[i] :
                    input.data[i][j] = 0 /\ ~output.data[i][j].nan
          /\ fp_metrics[1].entrez_gene_ids # KeptBy(1, output.data)

\* The chunk size the claim's pool would give: ceil(total / (4 * workers))
\* with workers = max(1, cores - 2).
SizedChunk(total, cpu) ==
    LET workers == IF cpu - 2 > 1 THEN cpu - 2 ELSE 1
    IN (total + 4 * workers - 1) \div (4 * workers)

(***************************************************************************)
(* C17: for every number of available cores >= 1, zfpkm_transform creates  *)
(* a pool of max(1, cores - 2) workers and cuts the samples into chunks of *)
(* ceil(samples / (4 * workers)) >= 1; the pool is never of size 0 or      *)
(* less, so creating it does not fail.                                     *)
(***************************************************************************)
C17_PoolSizing ==
    zt_pc # "call" =>
        /\ zt_pc # "raised"
        /\ SizedChunk(zt_total, zt_cpu) >= 1
        /\ Len(zt_tasks) = chunk_count(zt_total, SizedChunk(zt_total, zt_cpu))
        /\ Cardinality({c \in DOMAIN zt_tasks : zt_tasks[c] = "running"})
               <= (IF zt_cpu - 2 > 1 THEN zt_cpu - 2 ELSE 1)

(***************************************************************************)
(* C18: with technique umi filter_counts computes no FPKM and the matrix   *)
(* handed to zfpkm_transform is the study's count_matrix without its       *)
(* all-zero rows, whatever was done to the metrics before the call; and    *)
(* for single-cell data save_rnaseq_tests filters with umi whatever        *)
(* technique was asked for.                                                *)
(***************************************************************************)
C18_UmiRawCounts ==
    /\ (fp_prep = "scrna" /\ fp_pc # "save_rnaseq_tests") => fp_technique = "umi"
    /\ (fp_technique = "umi" /\ fp_pc \in {"zfpkm_filter", "returned", "raised"}) =>
           \A s \in DOMAIN fp_metrics :
               LET counts == fp_input[s].count_matrix
               IN /\ fp_metrics[s].normalization_matrix
                         = fp_input[s].normalization_matrix
                  /\ zfpkm_input(fp_metrics[s])
                         = rows_where(counts, [i \in DOMAIN counts.data |->
                                                  RowExpressed(counts, i)])

=============================================================================
